---- MODULE Spec2Model ----
(***************************************************************************)
(* Model of the cutting-stock engine of plan_AI:                           *)
(*   - _optimize_2d_with_lengths (optimization.py): demand aggregation,    *)
(*     primary and secondary option generation and filtering, the integer  *)
(*     program (constraints, objective), the solve and result extraction;  *)
(*   - get_price (price_db.py);                                            *)
(*   - first_fit_decreasing (optimization.py);                             *)
(*   - receive_plate_list_and_build (bot_handlers.py) with the module      *)
(*     level plan OPT_CASCADING_PLAN read by build_layout_sequence.        *)
(*                                                                         *)
(* Units.  Lengths are metres with two decimals in the program; the model  *)
(* keeps them in centimetres (5.6 m = 560).  Widths and width wastes are   *)
(* millimetres, as in the program.  Money is kept multiplied by CostScale  *)
(* so that every coefficient of the objective is an integer.               *)
(***************************************************************************)
EXTENDS Integers, Sequences, FiniteSets, TLC

(***************************************************************************)
(* Bounds of the model                                                     *)
(***************************************************************************)
MaxQty == 2          \* quantities of the generic order lines: 0..MaxQty

(***************************************************************************)
(* Program constants                                                       *)
(***************************************************************************)
DEFAULT_PLATE_WIDTH == 1200       \* plate_width default
DEFAULT_MIN_USEFUL_WIDTH == 200   \* min_useful_width default
tolerance_length == 1             \* 0.01 m, in cm
tolerance_width == 20             \* mm
LONG_CUT_PRICE_PER_M == 460
TRANSVERSE_CUT_PRICE == 1200
DEFAULT_PLATE_PRICE == 10000
DEFAULT_BASE_PRICE == 5000
SOLID_BONUS == 5000
REUSE_BONUS == 500
SOLID_PRIORITY_WIDTH == 1200      \* the literal 1200 of the solid priority loop
CostScale == 2400                 \* common denominator of the objective's terms

(***************************************************************************)
(* Helpers                                                                 *)
(***************************************************************************)
Abs(x) == IF x < 0 THEN 0 - x ELSE x

Range(s) == {s[i] : i \in 1..Len(s)}

RECURSIVE SumSeq(_)
SumSeq(s) == IF s = <<>> THEN 0 ELSE Head(s) + SumSeq(Tail(s))

RECURSIVE Flatten(_)
Flatten(ss) == IF ss = <<>> THEN <<>> ELSE Head(ss) \o Flatten(Tail(ss))

\* [v] * n
Repeat(v, n) == [i \in 1..n |-> v]

\* abs(a - b) <= 0.01 on lengths; for the catalogue lengths of this model the
\* float comparison of the program and the integer one agree.
LenClose(a, b) == Abs(a - b) <= tolerance_length

WidthClose(a, b) == Abs(a - b) <= tolerance_width

\* target_length < source_length - 0.1
Shorter(target_length, source_length) == target_length < source_length - 10

(***************************************************************************)
(* price_db.get_price                                                      *)
(* The table prices(length_dm, load_code, price) is a set of rows with     *)
(* (length_dm, load_code) as its key.  None is the empty sequence, a       *)
(* price p the sequence <<p>>.                                             *)
(***************************************************************************)
\* int(round(length_m * 10)): round half to even
RoundDm(length) ==
    LET q == length \div 10
        r == length % 10
    IN  IF r < 5 THEN q
        ELSE IF r > 5 THEN q + 1
        ELSE IF q % 2 = 0 THEN q ELSE q + 1

get_price(length, load_code, db) ==
    LET length_dm == RoundDm(length)
        exact == {row \in db : row.length_dm = length_dm /\ row.load_code = load_code}
        near  == {row \in db : Abs(row.length_dm - length_dm) <= 1 /\ row.load_code = load_code}
    IN  IF exact # {} THEN <<(CHOOSE row \in exact : TRUE).price>>
        ELSE IF near # {}
             THEN <<(CHOOSE row \in near :
                        \A other \in near :
                            Abs(row.length_dm - length_dm) <= Abs(other.length_dm - length_dm)).price>>
             ELSE <<>>

(***************************************************************************)
(* Inputs: order lists, configurations and price tables                    *)
(***************************************************************************)
Order(l, w, q) == [length |-> l, width |-> w, qty |-> q]

\* (length, width) keys of the generic order lines
Catalogue ==
    { <<560, 320>>, <<560, 880>>, <<560, 1200>>, <<560, 1080>>,
      <<560, 860>>, <<400, 320>> }

GenericLines == {Order(k[1], k[2], q) : k \in Catalogue, q \in 0..MaxQty}

ExampleA == << Order(560, 320, 11) >>
ExampleB == << Order(560, 320, 10), Order(560, 880, 3) >>

\* a strip of 20 mm and a shorter plate of width 1000
StripAndWidePlate == << Order(560, 20, 1), Order(400, 1000, 1) >>

\* a width of the narrowing table
NarrowingTarget == << Order(560, 720, 1) >>

\* a plate 3 cm shorter than the remnant of its width
SlightlyShorter == << Order(560, 320, 1), Order(557, 880, 1) >>

\* two plates of a width of the narrowing table
NarrowingTwice == << Order(560, 720, 2) >>

OrderLists ==
    {<<a>> : a \in GenericLines} \cup {<<a, b>> : a \in GenericLines, b \in GenericLines}
        \cup {ExampleA, ExampleB, StripAndWidePlate, NarrowingTarget, SlightlyShorter,
              NarrowingTwice}

\* <<plate_width, min_useful_width>>
Configs == { <<DEFAULT_PLATE_WIDTH, DEFAULT_MIN_USEFUL_WIDTH>>, <<1000, 300>> }

PriceRow(dm, load, p) == [length_dm |-> dm, load_code |-> load, price |-> p]

PriceTables ==
    { {},
      {PriceRow(56, 8, 12000), PriceRow(56, 6, 11000)},
      {PriceRow(57, 8, 9000)},
      {PriceRow(56, 8, 4000), PriceRow(56, 6, 3000)} }

(***************************************************************************)
(* 1. Demand aggregation: demand_2d, a dict in insertion order, is a       *)
(* sequence of [length, width, qty] with pairwise different keys.          *)
(***************************************************************************)
SameKey(a, b) == a.length = b.length /\ a.width = b.width

AddOrder(demand, order) ==
    IF \E i \in 1..Len(demand) : SameKey(demand[i], order)
    THEN [i \in 1..Len(demand) |->
            IF SameKey(demand[i], order)
            THEN [demand[i] EXCEPT !.qty = @ + order.qty]
            ELSE demand[i]]
    ELSE Append(demand, order)

RECURSIVE AggregateFrom(_, _)
AggregateFrom(demand, orders) ==
    IF orders = <<>> THEN demand
    ELSE AggregateFrom(AddOrder(demand, Head(orders)), Tail(orders))

AggregateDemand(orders) == AggregateFrom(<<>>, orders)

(***************************************************************************)
(* 2. Primary options                                                      *)
(***************************************************************************)
\* (source rest width, target width, waste)
NARROWING_TABLE ==
    << <<480, 460, 20>>, <<500, 460, 40>>, <<495, 460, 35>>, <<740, 720, 20>>,
       <<690, 660, 30>>, <<890, 860, 30>>, <<495, 480, 15>> >>

\* target_to_sources[width]: the (main_w, source_rest, waste) of the rows of
\* the table for this target, in table order; <<>> when the key is absent or
\* no row passes the 200..1000 range test.
TargetSources(width, plate_width) ==
    LET rows == SelectSeq(NARROWING_TABLE,
                    LAMBDA t : t[2] = width
                               /\ 200 <= plate_width - t[1]
                               /\ plate_width - t[1] <= 1000)
    IN  [i \in 1..Len(rows) |-> <<plate_width - rows[i][1], rows[i][1], rows[i][3]>>]

PrimaryOption(length, main, rest, type, target_width, narrowing_waste) ==
    [id |-> 0, length |-> length, main |-> main, rest |-> rest, type |-> type,
     target_width |-> target_width, narrowing_waste |-> narrowing_waste]

IndirectOptions(length, width, plate_width, min_useful_width) ==
    LET srcs == SelectSeq(TargetSources(width, plate_width),
                    LAMBDA t : t[1] # width /\ t[2] >= min_useful_width)
    IN  [i \in 1..Len(srcs) |->
            PrimaryOption(length, srcs[i][1], srcs[i][2], "indirect", width, srcs[i][3])]

\* PrimaryOptionsFor without the test of the remnant of the direct cut
PrimaryOptionsForAnyRest(length, width, plate_width, min_useful_width) ==
    IF width = plate_width
    THEN << PrimaryOption(length, width, 0, "solid", 0, 0) >>
    ELSE IF width < plate_width
    THEN << PrimaryOption(length, width, plate_width - width, "direct", 0, 0) >>
         \o IndirectOptions(length, width, plate_width, min_useful_width)
    ELSE <<>>

\* the options one demand key adds (ids are given afterwards, in list order)
PrimaryOptionsFor(length, width, plate_width, min_useful_width) ==
    IF width = plate_width
    THEN << PrimaryOption(length, width, 0, "solid", 0, 0) >>
    ELSE IF width < plate_width
    THEN (IF plate_width - width >= min_useful_width
          THEN << PrimaryOption(length, width, plate_width - width, "direct", 0, 0) >>
          ELSE <<>>)
         \o IndirectOptions(length, width, plate_width, min_useful_width)
    ELSE <<>>

\* option_id counts the appended options from 0
NumberOptions(opts) == [i \in 1..Len(opts) |-> [opts[i] EXCEPT !.id = i - 1]]

GeneratePrimary(demand, plate_width, min_useful_width) ==
    NumberOptions(Flatten([i \in 1..Len(demand) |->
        PrimaryOptionsFor(demand[i].length, demand[i].width, plate_width, min_useful_width)]))

\* 2.5 filter
\* HasDirect that looks for a direct cut of the main width of the option
HasDirectSameMain(opt, all_options) ==
    \E i \in 1..Len(all_options) :
        /\ all_options[i].type = "direct"
        /\ all_options[i].main = opt.main
        /\ Abs(all_options[i].length - opt.length) <= tolerance_length

HasDirect(opt, all_options) ==
    \E i \in 1..Len(all_options) :
        /\ all_options[i].type = "direct"
        /\ all_options[i].main = opt.target_width
        /\ Abs(all_options[i].length - opt.length) <= tolerance_length

\* KeepPrimary without rule 2
KeepPrimaryRestOnly(opt, all_options, min_useful_width) ==
    ~(opt.rest > 0 /\ opt.rest < min_useful_width)

KeepPrimary(opt, all_options, min_useful_width) ==
    /\ ~(opt.rest > 0 /\ opt.rest < min_useful_width)
    /\ ~(opt.type = "indirect" /\ HasDirect(opt, all_options))

FilterPrimary(all_options, min_useful_width) ==
    SelectSeq(all_options, LAMBDA opt : KeepPrimary(opt, all_options, min_useful_width))

(***************************************************************************)
(* 3. Secondary options                                                    *)
(***************************************************************************)
\* possible_rests, a dict in insertion order keyed by (length, rest): a
\* sequence of [length, rest, source_ids]
AddRest(rests, opt) ==
    IF \E i \in 1..Len(rests) : rests[i].length = opt.length /\ rests[i].rest = opt.rest
    THEN [i \in 1..Len(rests) |->
            IF rests[i].length = opt.length /\ rests[i].rest = opt.rest
            THEN [rests[i] EXCEPT !.source_ids = Append(@, opt.id)]
            ELSE rests[i]]
    ELSE Append(rests, [length |-> opt.length, rest |-> opt.rest, source_ids |-> <<opt.id>>])

RECURSIVE PossibleRestsFrom(_, _)
PossibleRestsFrom(rests, options) ==
    IF options = <<>> THEN rests
    ELSE PossibleRestsFrom(AddRest(rests, Head(options)), Tail(options))

PossibleRests(options) == PossibleRestsFrom(<<>>, options)

SecondaryOption(src, target, pieces, waste, length_waste, type) ==
    [id |-> 0, source_length |-> src.length, source_rest |-> src.rest,
     output_length |-> target.length, output_width |-> target.width,
     pieces |-> pieces, waste |-> waste, length_waste |-> length_waste,
     type |-> type, source_ids |-> src.source_ids]

\* MultipleOptions without the test of the lengths
MultipleOptionsAnyLength(src, target) ==
    LET pieces == src.rest \div target.width
        waste  == src.rest - pieces * target.width
    IN  IF pieces >= 2 /\ 2 * waste < src.rest
        THEN << SecondaryOption(src, target, pieces, waste, 0, "multiple") >>
        ELSE <<>>

\* MultipleOptions with the piece test off by one (pieces >= 3)
MultipleOptionsMin3(src, target) ==
    LET pieces == src.rest \div target.width
        waste  == src.rest - pieces * target.width
    IN  IF LenClose(target.length, src.length) /\ pieces >= 3 /\ 2 * waste < src.rest
        THEN << SecondaryOption(src, target, pieces, waste, 0, "multiple") >>
        ELSE <<>>

\* variant A: several pieces across the width, same length
MultipleOptions(src, target) ==
    LET pieces == src.rest \div target.width
        waste  == src.rest - pieces * target.width
    IN  IF LenClose(target.length, src.length) /\ pieces >= 2 /\ 2 * waste < src.rest
        THEN << SecondaryOption(src, target, pieces, waste, 0, "multiple") >>
        ELSE <<>>

\* variant A2: several pieces across the width of a shorter length
MultipleTransverseOptions(src, target) ==
    LET pieces == src.rest \div target.width
        waste_width == src.rest - pieces * target.width
        waste_length == (src.length - target.length) * 10
    IN  IF Shorter(target.length, src.length) /\ pieces >= 2 /\ 2 * waste_width < src.rest
        THEN << SecondaryOption(src, target, pieces, waste_width, waste_length,
                                "multiple_transverse") >>
        ELSE <<>>

\* variant B: narrowing
NarrowingOptions(src, target) ==
    IF /\ LenClose(target.length, src.length)
       /\ target.width < src.rest
       /\ src.rest <= target.width + 100
       /\ src.rest - target.width <= 100
    THEN << SecondaryOption(src, target, 1, src.rest - target.width, 0, "narrowing") >>
    ELSE <<>>

\* variant C: transverse cut
TransverseOptions(src, target) ==
    IF Shorter(target.length, src.length) /\ WidthClose(target.width, src.rest)
    THEN << SecondaryOption(src, target, 1, 0, (src.length - target.length) * 10,
                            "transverse") >>
    ELSE <<>>

SecondaryOptionsFor(src, target) ==
    MultipleOptions(src, target) \o MultipleTransverseOptions(src, target)
        \o NarrowingOptions(src, target) \o TransverseOptions(src, target)

GenerateSecondary(rests, demand, min_useful_width) ==
    NumberOptions(Flatten([i \in 1..Len(rests) |->
        IF rests[i].rest < min_useful_width THEN <<>>
        ELSE Flatten([j \in 1..Len(demand) |-> SecondaryOptionsFor(rests[i], demand[j])])]))

\* 3.5 filter
CombinationKey(opt) ==
    <<opt.source_length, opt.source_rest, opt.output_length, opt.output_width, opt.type>>

\* TooMuchWaste with rule 4 switched off
TooMuchWasteNever(opt) == FALSE

\* waste_area > source_area * 0.3, both sides multiplied by 1000
TooMuchWaste(opt) ==
    10 * (opt.waste * opt.source_length) + opt.length_waste * opt.source_rest
        > 3 * opt.source_length * opt.source_rest

\* transverse with waste_fraction > 0.5
TransverseTooShort(opt) ==
    /\ opt.type = "transverse"
    /\ opt.source_length > 0
    /\ 2 * opt.length_waste > opt.source_length * 10

RECURSIVE FilterSecondaryFrom(_, _, _)
FilterSecondaryFrom(kept, seen_combinations, options) ==
    IF options = <<>> THEN kept
    ELSE LET opt == Head(options)
             key == CombinationKey(opt)
         IN  IF key \in seen_combinations
             THEN FilterSecondaryFrom(kept, seen_combinations, Tail(options))
             ELSE IF TooMuchWaste(opt) \/ TransverseTooShort(opt)
             THEN FilterSecondaryFrom(kept, seen_combinations \cup {key}, Tail(options))
             ELSE FilterSecondaryFrom(Append(kept, opt), seen_combinations \cup {key},
                                      Tail(options))

FilterSecondary(options) == FilterSecondaryFrom(<<>>, {}, options)

(***************************************************************************)
(* 4.-6. Variables and constraints of the integer program.                 *)
(* A variable is <<"prim", id>> or <<"sec", id>>; a linear expression is   *)
(* a sequence of terms [var, coef]; a constraint [terms, rhs] reads        *)
(* sum(terms) >= rhs.                                                      *)
(***************************************************************************)
x_prim(opt) == <<"prim", opt.id>>
x_sec(opt) == <<"sec", opt.id>>

Term(var, coef) == [var |-> var, coef |-> coef]

\* k * expr
Scale(k, terms) == [i \in 1..Len(terms) |-> Term(terms[i].var, k * terms[i].coef)]

\* the terms f(opt) of the options of a list that satisfy a test, in list order
TermsOf(options, Test(_), Make(_)) ==
    LET hit == SelectSeq(options, Test)
    IN  [i \in 1..Len(hit) |-> Make(hit[i])]

\* DemandSources without the secondary cuts (source 2 forgotten)
DemandSourcesPrimaryOnly(target, primary, secondary) ==
    TermsOf(primary,
            LAMBDA opt : /\ LenClose(opt.length, target.length)
                         /\ WidthClose(opt.main, target.width)
                         /\ opt.type \in {"direct", "solid"},
            LAMBDA opt : Term(x_prim(opt), 1))
    \o
    TermsOf(primary,
            LAMBDA opt : /\ LenClose(opt.length, target.length)
                         /\ opt.type = "indirect"
                         /\ WidthClose(opt.target_width, target.width),
            LAMBDA opt : Term(x_prim(opt), 1))

\* 5. sources of one demand key
DemandSources(target, primary, secondary) ==
    TermsOf(primary,
            LAMBDA opt : /\ LenClose(opt.length, target.length)
                         /\ WidthClose(opt.main, target.width)
                         /\ opt.type \in {"direct", "solid"},
            LAMBDA opt : Term(x_prim(opt), 1))
    \o
    TermsOf(primary,
            LAMBDA opt : /\ LenClose(opt.length, target.length)
                         /\ opt.type = "indirect"
                         /\ WidthClose(opt.target_width, target.width),
            LAMBDA opt : Term(x_prim(opt), 1))
    \o
    TermsOf(secondary,
            LAMBDA opt : /\ LenClose(opt.output_length, target.length)
                         /\ WidthClose(opt.output_width, target.width),
            LAMBDA opt : Term(x_sec(opt), opt.pieces))

DemandConstraints(demand, primary, secondary) ==
    Flatten([i \in 1..Len(demand) |->
        LET sources == DemandSources(demand[i], primary, secondary)
        IN  IF sources # <<>>
            THEN << [name |-> "demand", key |-> <<demand[i].length, demand[i].width>>,
                     terms |-> sources, rhs |-> demand[i].qty] >>
            ELSE <<>>])

\* 5.5 solid priority
SolidSources(target, primary) ==
    TermsOf(primary,
            LAMBDA opt : /\ LenClose(opt.length, target.length)
                         /\ opt.main = target.width
                         /\ opt.type = "solid",
            LAMBDA opt : Term(x_prim(opt), 1))

SolidPriorityConstraints(demand, primary) ==
    Flatten([i \in 1..Len(demand) |->
        LET solid_sources == SolidSources(demand[i], primary)
        IN  IF demand[i].width = SOLID_PRIORITY_WIDTH /\ solid_sources # <<>>
            THEN << [name |-> "solid_priority",
                     key |-> <<demand[i].length, demand[i].width>>,
                     terms |-> solid_sources, rhs |-> demand[i].qty] >>
            ELSE <<>>])

\* 6. remnant balance
OptionById(options, id) == SelectSeq(options, LAMBDA o : o.id = id)

\* produced of the balance loop: the non-solid options among source_ids
Produced(rest, primary) ==
    Flatten([i \in 1..Len(rest.source_ids) |->
        LET found == OptionById(primary, rest.source_ids[i])
        IN  IF found # <<>> /\ found[1].type # "solid"
            THEN << Term(<<"prim", rest.source_ids[i]>>, 1) >>
            ELSE <<>>])

Consumed(rest, secondary) ==
    TermsOf(secondary,
            LAMBDA opt : /\ LenClose(opt.source_length, rest.length)
                         /\ opt.source_rest = rest.rest,
            LAMBDA opt : Term(x_sec(opt), 1))

\* BalanceConstraints with the comparison turned round (consumed >= produced)
BalanceConstraintsReversed(rests, primary, secondary) ==
    Flatten([i \in 1..Len(rests) |->
        LET produced == Produced(rests[i], primary)
            consumed == Consumed(rests[i], secondary)
        IN  IF rests[i].rest # 0 /\ produced # <<>> /\ consumed # <<>>
            THEN << [name |-> "balance", key |-> <<rests[i].length, rests[i].rest>>,
                     terms |-> consumed \o Scale(-1, produced), rhs |-> 0] >>
            ELSE <<>>])

\* lpSum(consumed) <= lpSum(produced), written produced - consumed >= 0
BalanceConstraints(rests, primary, secondary) ==
    Flatten([i \in 1..Len(rests) |->
        LET produced == Produced(rests[i], primary)
            consumed == Consumed(rests[i], secondary)
        IN  IF rests[i].rest # 0 /\ produced # <<>> /\ consumed # <<>>
            THEN << [name |-> "balance", key |-> <<rests[i].length, rests[i].rest>>,
                     terms |-> produced \o Scale(-1, consumed), rhs |-> 0] >>
            ELSE <<>>])

Constraints(demand, rests, primary, secondary) ==
    DemandConstraints(demand, primary, secondary)
        \o SolidPriorityConstraints(demand, primary)
        \o BalanceConstraints(rests, primary, secondary)

(***************************************************************************)
(* 7. Objective.  Every coefficient is the program's value in roubles      *)
(* multiplied by CostScale.                                                *)
(***************************************************************************)
\* PriceOr that takes a missing price for 0 instead of the default
PriceOrZero(found, default) == IF found = <<>> THEN 0 ELSE found[1]

\* "if price is None: price = default"
PriceOr(found, default) == IF found = <<>> THEN default ELSE found[1]

\* cfg.LONG_CUT_PRICE_PER_M * length, scaled (length in cm)
LongCutCost(length) == LONG_CUT_PRICE_PER_M * (CostScale \div 100) * length

\* 7.1 coefficient of a primary option
PrimaryCoef(opt, db) ==
    LET plate_price == PriceOr(get_price(opt.length, 8, db), DEFAULT_PLATE_PRICE)
        cut_cost == IF opt.type \in {"direct", "indirect"}
                    THEN LongCutCost(opt.length) ELSE 0
    IN  IF opt.type = "solid"
        THEN plate_price * CostScale + cut_cost - SOLID_BONUS * CostScale
        ELSE plate_price * CostScale + cut_cost

\* 7.2 terms of a secondary option
SecondaryCostTerms(opt) ==
    (IF opt.type \in {"narrowing", "multiple", "multiple_transverse"}
     THEN << Term(x_sec(opt), LongCutCost(opt.source_length)) >> ELSE <<>>)
    \o
    (IF opt.type \in {"transverse", "multiple_transverse"}
     THEN << Term(x_sec(opt), TRANSVERSE_CUT_PRICE * CostScale) >> ELSE <<>>)

TotalCost(primary, secondary, db) ==
    [i \in 1..Len(primary) |-> Term(x_prim(primary[i]), PrimaryCoef(primary[i], db))]
        \o Flatten([i \in 1..Len(secondary) |-> SecondaryCostTerms(secondary[i])])

\* 7.3 rest_price * 0.5, scaled: base_price * (source_width / 1200.0) * 0.5
HalfRestPrice(rest, db) ==
    PriceOr(get_price(rest.length, 6, db), DEFAULT_BASE_PRICE) * rest.rest
        * (CostScale \div 2400)

UnusedPenaltyFor(rest, secondary, db) ==
    LET produced == [i \in 1..Len(rest.source_ids) |-> Term(<<"prim", rest.source_ids[i]>>, 1)]
        consumed == Consumed(rest, secondary)
    IN  IF produced # <<>> /\ consumed # <<>>
        THEN Scale(HalfRestPrice(rest, db), produced \o Scale(-1, consumed))
        ELSE <<>>

UnusedPenalty(rests, secondary, db) ==
    Flatten([i \in 1..Len(rests) |-> UnusedPenaltyFor(rests[i], secondary, db)])

\* 7.4 waste: 1000 roubles per square metre
WasteTerms(opt) ==
    (IF opt.waste > 0
     THEN << Term(x_sec(opt), (CostScale \div 100) * opt.waste * opt.source_length) >>
     ELSE <<>>)
    \o
    (IF opt.length_waste > 0
     THEN << Term(x_sec(opt), (CostScale \div 100) * (opt.length_waste \div 10) * opt.source_rest) >>
     ELSE <<>>)

WastePenalty(secondary) == Flatten([i \in 1..Len(secondary) |-> WasteTerms(secondary[i])])

\* 7.5 bonus for every secondary cut
ReuseBonus(secondary) ==
    [i \in 1..Len(secondary) |-> Term(x_sec(secondary[i]), 0 - REUSE_BONUS * CostScale)]

Objective(rests, primary, secondary, db) ==
    [total_cost |-> TotalCost(primary, secondary, db),
     unused_penalty |-> UnusedPenalty(rests, secondary, db),
     waste_penalty |-> WastePenalty(secondary),
     reuse_bonus |-> ReuseBonus(secondary)]

ObjectiveTerms(obj) ==
    obj.total_cost \o obj.unused_penalty \o obj.waste_penalty \o obj.reuse_bonus

BuildProblem(demand, rests, primary, secondary, db) ==
    [vars |-> [i \in 1..Len(primary) |-> x_prim(primary[i])]
                \o [i \in 1..Len(secondary) |-> x_sec(secondary[i])],
     constraints |-> Constraints(demand, rests, primary, secondary),
     objective |-> Objective(rests, primary, secondary, db)]

(***************************************************************************)
(* 8. The solver (PuLP with CBC): an integer program over variables >= 0.  *)
(* The search box 0..bound holds every optimum of a bounded program; an    *)
(* improving direction of the constraint cone makes the program unbounded. *)
(***************************************************************************)
\* coefficient of each variable in a linear expression
CoefOf(terms, vars) ==
    [v \in Range(vars) |->
        SumSeq([i \in 1..Len(terms) |-> IF terms[i].var = v THEN terms[i].coef ELSE 0])]

RECURSIVE Dot(_, _, _)
Dot(coef, x, vars) ==
    IF vars = <<>> THEN 0
    ELSE coef[Head(vars)] * x[Head(vars)] + Dot(coef, x, Tail(vars))

VarBound(demand) ==
    SumSeq([i \in 1..Len(demand) |-> IF demand[i].qty > 0 THEN demand[i].qty ELSE 0])

\* [status, solutions]: the solutions are the optimal assignments
Solve(prob, bound) ==
    LET vars == prob.vars
        rows == [i \in 1..Len(prob.constraints) |->
                    [coef |-> CoefOf(prob.constraints[i].terms, vars),
                     rhs |-> prob.constraints[i].rhs]]
        cost == CoefOf(ObjectiveTerms(prob.objective), vars)
        Feasible(x) == \A i \in 1..Len(rows) : Dot(rows[i].coef, x, vars) >= rows[i].rhs
        InCone(d) == \A i \in 1..Len(rows) : Dot(rows[i].coef, d, vars) >= 0
        feasible == {x \in [Range(vars) -> 0..bound] : Feasible(x)}
        improving == {d \in [Range(vars) -> 0..1] : InCone(d) /\ Dot(cost, d, vars) < 0}
        costs == {Dot(cost, x, vars) : x \in feasible}
        best == CHOOSE c \in costs : \A d \in costs : c <= d
    IN  IF feasible = {} THEN [status |-> "Infeasible", solutions |-> {}]
        ELSE IF improving # {} THEN [status |-> "Unbounded", solutions |-> {}]
        ELSE [status |-> "Optimal",
              solutions |-> {x \in feasible : Dot(cost, x, vars) = best}]

(***************************************************************************)
(* 9. Result extraction                                                    *)
(***************************************************************************)
\* the Python value {} returned when there is no plan
EmptyDict == [empty_dict |-> TRUE]

\* the value of result before the call has returned
NotReturned == [not_returned |-> TRUE]

PrimaryCut(opt, qty) ==
    [width |-> opt.main, rest |-> opt.rest, qty |-> qty, lengths |-> Repeat(opt.length, qty)]

PrimaryAssignment(opt) ==
    [length |-> opt.length, width |-> opt.main, source |-> "primary", rest_width |-> opt.rest]

SecondaryCut(opt, qty) ==
    [source |-> opt.source_rest, cuts |-> <<opt.output_width>>, qty |-> qty,
     pieces |-> opt.pieces, waste |-> opt.waste, type |-> opt.type,
     source_lengths |-> Repeat(opt.source_length, qty),
     lengths |-> Repeat(opt.output_length, qty)]

\* SecondaryAssignment that records the width of the piece as its source
SecondaryAssignmentOwnWidth(opt) ==
    [length |-> opt.output_length, width |-> opt.output_width, source |-> "secondary",
     source_rest |-> opt.output_width]

SecondaryAssignment(opt) ==
    [length |-> opt.output_length, width |-> opt.output_width, source |-> "secondary",
     source_rest |-> opt.source_rest]

ExtractResult(primary, secondary, x) ==
    LET used_primary == SelectSeq(primary, LAMBDA opt : x[x_prim(opt)] > 0)
        used_secondary == SelectSeq(secondary, LAMBDA opt : x[x_sec(opt)] > 0)
    IN  [primary_cuts |->
            [i \in 1..Len(used_primary) |->
                PrimaryCut(used_primary[i], x[x_prim(used_primary[i])])],
         secondary_cuts |->
            [i \in 1..Len(used_secondary) |->
                SecondaryCut(used_secondary[i], x[x_sec(used_secondary[i])])],
         total_plates |->
            SumSeq([i \in 1..Len(used_primary) |-> x[x_prim(used_primary[i])]]),
         plate_assignments |->
            Flatten([i \in 1..Len(used_primary) |->
                Repeat(PrimaryAssignment(used_primary[i]), x[x_prim(used_primary[i])])])
            \o
            Flatten([i \in 1..Len(used_secondary) |->
                Repeat(SecondaryAssignment(used_secondary[i]),
                       x[x_sec(used_secondary[i])] * used_secondary[i].pieces)])]

(***************************************************************************)
(* State of one call of _optimize_2d_with_lengths                          *)
(***************************************************************************)
VARIABLES
    pc,                 \* position in the function
    orders_2d,          \* argument
    plate_width,        \* argument
    min_useful_width,   \* argument
    price_db,           \* the prices table behind get_price
    pulp_installed,     \* whether "from pulp import ..." succeeds
    demand_2d,
    primary_options,
    possible_rests,
    secondary_options,
    prob,               \* constraints and objective of the LpProblem
    status,             \* LpStatus[prob.status]
    values,             \* value(x) of every variable after the solve
    result              \* the returned dict

optVars == <<pc, orders_2d, plate_width, min_useful_width, price_db, pulp_installed,
             demand_2d, primary_options, possible_rests, secondary_options, prob,
             status, values, result>>

(***************************************************************************)
(* State of the calls of first_fit_decreasing and of the order handler     *)
(***************************************************************************)
VARIABLES
    ffd_pc,        \* position in first_fit_decreasing
    pieces,        \* argument
    stock_len_m,   \* argument
    expanded,      \* the unit pieces, longest first
    placed,        \* number of unit pieces placed so far
    pool           \* the tracks

ffdVars == <<ffd_pc, pieces, stock_len_m, expanded, placed, pool>>

VARIABLES
    PLATES,               \* cfg.PLATES_*: width bucket -> list of lengths
    OPT_CASCADING_PLAN,   \* the module global of optimization.py
    bot_pc,               \* position of every handler invocation
    text,                 \* message.text of every request
    bot_orders_2d,        \* orders_2d of every invocation
    optimization_result,  \* optimization_result of every invocation
    rendered              \* what build_layout_sequence used for every request

botVars == <<PLATES, OPT_CASCADING_PLAN, bot_pc, text, bot_orders_2d,
             optimization_result, rendered>>

vars == <<optVars, ffdVars, botVars>>

NoProblem == [vars |-> <<>>, constraints |-> <<>>,
              objective |-> [total_cost |-> <<>>, unused_penalty |-> <<>>,
                             waste_penalty |-> <<>>, reuse_bonus |-> <<>>]]

OptInit ==
    /\ pc = "start"
    /\ orders_2d \in OrderLists \cup {<<>>}
    /\ \E c \in Configs : plate_width = c[1] /\ min_useful_width = c[2]
    /\ price_db \in PriceTables
    /\ pulp_installed \in BOOLEAN
    /\ demand_2d = <<>>
    /\ primary_options = <<>>
    /\ possible_rests = <<>>
    /\ secondary_options = <<>>
    /\ prob = NoProblem
    /\ status = "Not Solved"
    /\ values = <<>>
    /\ result = NotReturned

\* import of pulp, the empty check and step 1
Enter ==
    /\ pc = "start"
    /\ IF ~pulp_installed \/ orders_2d = <<>>
       THEN /\ result' = EmptyDict
            /\ pc' = "done"
            /\ UNCHANGED demand_2d
       ELSE /\ demand_2d' = AggregateDemand(orders_2d)
            /\ pc' = "demand"
            /\ UNCHANGED result
    /\ UNCHANGED <<orders_2d, plate_width, min_useful_width, price_db, pulp_installed,
                   primary_options, possible_rests, secondary_options, prob, status, values>>
    /\ UNCHANGED <<ffdVars, botVars>>

\* step 2
GeneratePrimaryOptions ==
    /\ pc = "demand"
    /\ primary_options' = GeneratePrimary(demand_2d, plate_width, min_useful_width)
    /\ pc' = "primary"
    /\ UNCHANGED <<orders_2d, plate_width, min_useful_width, price_db, pulp_installed,
                   demand_2d, possible_rests, secondary_options, prob, status, values, result>>
    /\ UNCHANGED <<ffdVars, botVars>>

\* step 2.5
FilterPrimaryOptions ==
    /\ pc = "primary"
    /\ primary_options' = FilterPrimary(primary_options, min_useful_width)
    /\ pc' = "primary_filtered"
    /\ UNCHANGED <<orders_2d, plate_width, min_useful_width, price_db, pulp_installed,
                   demand_2d, possible_rests, secondary_options, prob, status, values, result>>
    /\ UNCHANGED <<ffdVars, botVars>>

\* step 3
GenerateSecondaryOptions ==
    /\ pc = "primary_filtered"
    /\ possible_rests' = PossibleRests(primary_options)
    /\ secondary_options' =
            GenerateSecondary(PossibleRests(primary_options), demand_2d, min_useful_width)
    /\ pc' = "secondary"
    /\ UNCHANGED <<orders_2d, plate_width, min_useful_width, price_db, pulp_installed,
                   demand_2d, primary_options, prob, status, values, result>>
    /\ UNCHANGED <<ffdVars, botVars>>

\* step 3.5
FilterSecondaryOptions ==
    /\ pc = "secondary"
    /\ secondary_options' = FilterSecondary(secondary_options)
    /\ pc' = "secondary_filtered"
    /\ UNCHANGED <<orders_2d, plate_width, min_useful_width, price_db, pulp_installed,
                   demand_2d, primary_options, possible_rests, prob, status, values, result>>
    /\ UNCHANGED <<ffdVars, botVars>>

\* steps 4 to 7
BuildModel ==
    /\ pc = "secondary_filtered"
    /\ prob' = BuildProblem(demand_2d, possible_rests, primary_options, secondary_options,
                            price_db)
    /\ pc' = "built"
    /\ UNCHANGED <<orders_2d, plate_width, min_useful_width, price_db, pulp_installed,
                   demand_2d, primary_options, possible_rests, secondary_options,
                   status, values, result>>
    /\ UNCHANGED <<ffdVars, botVars>>

\* step 8: prob.solve
SolveModel ==
    /\ pc = "built"
    /\ LET solved == Solve(prob, VarBound(demand_2d))
       IN  /\ status' = solved.status
           /\ IF solved.status = "Optimal"
              THEN values' \in solved.solutions
              ELSE values' = <<>>
    /\ pc' = "solved"
    /\ UNCHANGED <<orders_2d, plate_width, min_useful_width, price_db, pulp_installed,
                   demand_2d, primary_options, possible_rests, secondary_options,
                   prob, result>>
    /\ UNCHANGED <<ffdVars, botVars>>

\* the status test and step 9
Return ==
    /\ pc = "solved"
    /\ result' = IF status # "Optimal" THEN EmptyDict
                 ELSE ExtractResult(primary_options, secondary_options, values)
    /\ pc' = "done"
    /\ UNCHANGED <<orders_2d, plate_width, min_useful_width, price_db, pulp_installed,
                   demand_2d, primary_options, possible_rests, secondary_options,
                   prob, status, values>>
    /\ UNCHANGED <<ffdVars, botVars>>

OptNext ==
    \/ Enter
    \/ GeneratePrimaryOptions
    \/ FilterPrimaryOptions
    \/ GenerateSecondaryOptions
    \/ FilterSecondaryOptions
    \/ BuildModel
    \/ SolveModel
    \/ Return

\* the composition of the steps: every dict one call can return
Optimize2D(orders, width, min_width, db, installed) ==
    IF ~installed \/ orders = <<>> THEN {EmptyDict}
    ELSE LET demand == AggregateDemand(orders)
             primary == FilterPrimary(GeneratePrimary(demand, width, min_width), min_width)
             rests == PossibleRests(primary)
             secondary == FilterSecondary(GenerateSecondary(rests, demand, min_width))
             solved == Solve(BuildProblem(demand, rests, primary, secondary, db),
                             VarBound(demand))
         IN  IF solved.status # "Optimal" THEN {EmptyDict}
             ELSE {ExtractResult(primary, secondary, x) : x \in solved.solutions}

\* orders is None in the call of the handler
optimize_with_cascading_longitudinal_cuts(orders, width, min_width, db, installed) ==
    IF Len(orders) > 0 THEN Optimize2D(orders, width, min_width, db, installed)
    ELSE {EmptyDict}

(***************************************************************************)
(* first_fit_decreasing                                                    *)
(* A Piece is [length_m, qty, kind] (load_class and width_m are carried    *)
(* along unchanged by the program and left out), a Track is                *)
(* [total_m, pieces, leftover_m]; lengths are in cm.                       *)
(***************************************************************************)
MaxPieces == 3        \* pieces of a generic input list
MaxPieceQty == 2      \* qty of a generic piece: -1..MaxPieceQty

Piece(length_m, qty, kind) == [length_m |-> length_m, qty |-> qty, kind |-> kind]

PieceLengths == {988, 500, 494}

GenericPieces == {Piece(l, q, "standard") : l \in PieceLengths, q \in -1..MaxPieceQty}

ExampleC == << Piece(988, 1, "standard"), Piece(988, 1, "standard"),
               Piece(500, 1, "standard"), Piece(500, 1, "standard") >>

\* two long pieces that open a track each, and a short one that fits both
TwoOpenTracks == << Piece(600, 2, "standard"), Piece(300, 1, "standard") >>

\* a piece longer than every stock length, and two pieces of length zero
OversizeAndEmpty == << Piece(1200, 1, "standard"), Piece(0, 2, "standard") >>

PieceLists ==
    UNION {[1..n -> GenericPieces] : n \in 0..MaxPieces}
        \cup {ExampleC, TwoOpenTracks, OversizeAndEmpty}

StockLengths == {988, 1000}

\* sorted(pieces, key=length_m, reverse=True): stable, equal lengths keep
\* their order
RECURSIVE InsertSorted(_, _)
InsertSorted(sorted, piece) ==
    IF sorted = <<>> THEN <<piece>>
    ELSE IF Head(sorted).length_m >= piece.length_m
         THEN <<Head(sorted)>> \o InsertSorted(Tail(sorted), piece)
         ELSE <<piece>> \o sorted

RECURSIVE SortDescending(_)
SortDescending(unsorted) ==
    IF unsorted = <<>> THEN <<>>
    ELSE InsertSorted(SortDescending(SubSeq(unsorted, 1, Len(unsorted) - 1)),
                      unsorted[Len(unsorted)])

\* Expand that yields one unit piece for every piece, whatever its qty
ExpandOnePerPiece(sorted_pieces) ==
    [i \in 1..Len(sorted_pieces) |->
        Piece(sorted_pieces[i].length_m, 1, sorted_pieces[i].kind)]

\* range(p.qty) unit pieces for every piece
Expand(sorted_pieces) ==
    Flatten([i \in 1..Len(sorted_pieces) |->
        Repeat(Piece(sorted_pieces[i].length_m, 1, sorted_pieces[i].kind),
               IF sorted_pieces[i].qty > 0 THEN sorted_pieces[i].qty ELSE 0)])

\* Fits without the length of the piece (track.total_m <= stock_len_m)
FitsIgnoringPiece(track, piece, stock) == track.total_m <= stock

\* track.total_m + piece.length_m <= stock_len_m
Fits(track, piece, stock) == track.total_m + piece.length_m <= stock

NewTrack(piece) == [total_m |-> piece.length_m, pieces |-> <<piece>>, leftover_m |-> 0]

\* PlacePiece that opens a track for every piece
PlacePieceNewTrack(tracks, piece, stock) == Append(tracks, NewTrack(piece))

\* PlacePiece that takes the last track with room instead of the first
PlacePieceLastFit(tracks, piece, stock) ==
    IF \E i \in 1..Len(tracks) : Fits(tracks[i], piece, stock)
    THEN LET last == CHOOSE i \in 1..Len(tracks) :
                        /\ Fits(tracks[i], piece, stock)
                        /\ \A j \in (i + 1)..Len(tracks) : ~Fits(tracks[j], piece, stock)
         IN  [tracks EXCEPT ![last] =
                [@ EXCEPT !.pieces = Append(@, piece), !.total_m = @ + piece.length_m]]
    ELSE Append(tracks, NewTrack(piece))

\* one turn of the placement loop
PlacePiece(tracks, piece, stock) ==
    IF \E i \in 1..Len(tracks) : Fits(tracks[i], piece, stock)
    THEN LET first == CHOOSE i \in 1..Len(tracks) :
                        /\ Fits(tracks[i], piece, stock)
                        /\ \A j \in 1..(i - 1) : ~Fits(tracks[j], piece, stock)
         IN  [tracks EXCEPT ![first] =
                [@ EXCEPT !.pieces = Append(@, piece), !.total_m = @ + piece.length_m]]
    ELSE Append(tracks, NewTrack(piece))

FfdInit ==
    /\ ffd_pc = "start"
    /\ pieces \in PieceLists
    /\ stock_len_m \in StockLengths
    /\ expanded = <<>>
    /\ placed = 0
    /\ pool = <<>>

\* sort and expand
SortAndExpand ==
    /\ ffd_pc = "start"
    /\ expanded' = Expand(SortDescending(pieces))
    /\ ffd_pc' = "placing"
    /\ UNCHANGED <<pieces, stock_len_m, placed, pool>>
    /\ UNCHANGED <<optVars, botVars>>

\* one iteration of "for piece in expanded"
Place ==
    /\ ffd_pc = "placing"
    /\ placed < Len(expanded)
    /\ pool' = PlacePiece(pool, expanded[placed + 1], stock_len_m)
    /\ placed' = placed + 1
    /\ UNCHANGED <<ffd_pc, pieces, stock_len_m, expanded>>
    /\ UNCHANGED <<optVars, botVars>>

\* the leftovers, and the return
ComputeLeftovers ==
    /\ ffd_pc = "placing"
    /\ placed = Len(expanded)
    /\ pool' = [i \in 1..Len(pool) |->
                    [pool[i] EXCEPT !.leftover_m = stock_len_m - pool[i].total_m]]
    /\ ffd_pc' = "done"
    /\ UNCHANGED <<pieces, stock_len_m, expanded, placed>>
    /\ UNCHANGED <<optVars, botVars>>

FfdNext == SortAndExpand \/ Place \/ ComputeLeftovers

(***************************************************************************)
(* The order handler receive_plate_list_and_build                          *)
(* A message text is kept as the lines the parser matches, each            *)
(* [width (mm), length (cm), qty].                                         *)
(***************************************************************************)
MaxRequests == 2      \* order messages of one run

Requests == 1..MaxRequests

TextLine(width, length, qty) == [width |-> width, length |-> length, qty |-> qty]

BotWidths == {320, 880, 1000, 1080, 1200, 1500}

BotTexts ==
    {<<>>}
    \cup {<<TextLine(w, 560, q)>> : w \in BotWidths, q \in 0..MaxQty}
    \cup {<<TextLine(320, 560, 1), TextLine(320, 560, 1)>>,
          <<TextLine(1080, 560, 1), TextLine(1000, 400, 1)>>}

\* the lists of cfg, in the order the handler reads them, and the two it
\* does not read
HandlerWidths == <<1200, 1080, 320, 460, 700, 720, 860, 880, 740, 480, 500, 340>>

Buckets == Range(HandlerWidths) \cup {1000, 1500}

\* the lists as the module is imported
InitialPlates ==
    [b \in Buckets |->
        IF b = 1200 THEN <<339, 339>>
        ELSE IF b = 320 THEN <<663, 663, 663, 663, 783, 783, 783>>
        ELSE IF b = 720 THEN <<563, 563, 563, 563, 563>>
        ELSE IF b = 700 THEN <<465, 465, 465, 465, 465>>
        ELSE IF b = 860 THEN <<675, 675, 465, 465, 465, 465, 465>>
        ELSE <<>>]

_clear_all_plate_lists == [b \in Buckets |-> <<>>]

\* the list add_items appends to, 0 when the width is ignored
TargetList(width) ==
    IF 1150 <= width /\ width <= 1250 THEN 1200
    ELSE IF 980 <= width /\ width <= 1020 THEN 1000
    ELSE IF 1060 <= width /\ width <= 1120 THEN 1080
    ELSE IF 260 <= width /\ width <= 320 THEN 320
    ELSE IF 460 <= width /\ width <= 530 THEN 460
    ELSE IF 660 <= width /\ width <= 710 THEN 700
    ELSE IF 710 < width /\ width <= 720 THEN 720
    ELSE IF 860 <= width /\ width <= 920 THEN 860
    ELSE IF 330 < width /\ width <= 350 THEN 340
    ELSE IF 470 < width /\ width <= 490 THEN 480
    ELSE IF 490 < width /\ width <= 510 THEN 500
    ELSE IF 730 < width /\ width <= 750 THEN 740
    ELSE IF 870 < width /\ width <= 890 THEN 880
    ELSE 0

add_items(plates, line) ==
    LET items == Repeat(line.length, IF line.qty > 0 THEN line.qty ELSE 0)
    IN  IF 1450 <= line.width /\ line.width <= 1550
        THEN [plates EXCEPT ![1200] = @ \o items, ![320] = @ \o items]
        ELSE IF TargetList(line.width) = 0 THEN plates
             ELSE [plates EXCEPT ![TargetList(line.width)] = @ \o items]

RECURSIVE AddLines(_, _)
AddLines(plates, lines) ==
    IF lines = <<>> THEN plates
    ELSE AddLines(add_items(plates, Head(lines)), Tail(lines))

set_plate_lists_from_text(user_text) == AddLines(_clear_all_plate_lists, user_text)

\* Counter(plates_list).items(): the distinct lengths in the order of their
\* first occurrence, each with its count
RECURSIVE CounterItems(_)
CounterItems(plates_list) ==
    IF plates_list = <<>> THEN <<>>
    ELSE LET first == Head(plates_list)
         IN  <<[length |-> first,
                qty |-> Len(SelectSeq(plates_list, LAMBDA l : l = first))]>>
             \o CounterItems(SelectSeq(Tail(plates_list), LAMBDA l : l # first))

BuildOrders2D(plates) ==
    Flatten([i \in 1..Len(HandlerWidths) |->
        LET items == CounterItems(plates[HandlerWidths[i]])
        IN  [j \in 1..Len(items) |->
                Order(items[j].length, HandlerWidths[i], items[j].qty)]])

\* optimization_result = None
None == [none |-> TRUE]

\* "if optimization_result and optimization_result.get('total_plates', 0) > 0"
HasPlates(plan) ==
    IF plan = None \/ plan = EmptyDict THEN FALSE ELSE plan.total_plates > 0

\* "if OPT_CASCADING_PLAN and OPT_CASCADING_PLAN.get('primary_cuts')"
HasPrimaryCuts(plan) ==
    IF plan = None \/ plan = EmptyDict THEN FALSE ELSE plan.primary_cuts # <<>>

NotRendered == [used |-> "nothing", plan |-> EmptyDict, plates |-> _clear_all_plate_lists]

\* what build_layout_sequence lays out
build_layout_sequence(cascading_plan) ==
    IF HasPrimaryCuts(cascading_plan)
    THEN [used |-> "OPT_CASCADING_PLAN", plan |-> cascading_plan]
    ELSE [used |-> "OPT_PLAN", plan |-> EmptyDict]

\* visualize_plan: build_price_rows reads the plate lists of cfg for the
\* procurement items, then build_layout_sequence reads the plan
visualize_plan(plates, cascading_plan) ==
    LET seq == build_layout_sequence(cascading_plan)
    IN  [used |-> seq.used, plan |-> seq.plan, plates |-> plates]

BotInit ==
    /\ PLATES = InitialPlates
    /\ OPT_CASCADING_PLAN = EmptyDict
    /\ bot_pc = [r \in Requests |-> "waiting"]
    /\ text = [r \in Requests |-> <<>>]
    /\ bot_orders_2d = [r \in Requests |-> <<>>]
    /\ optimization_result = [r \in Requests |-> None]
    /\ rendered = [r \in Requests |-> NotRendered]

\* the message arrives and the handler answers that it is working
Receive(r) ==
    /\ bot_pc[r] = "waiting"
    /\ \E t \in BotTexts : text' = [text EXCEPT ![r] = t]
    /\ bot_pc' = [bot_pc EXCEPT ![r] = "answered"]
    /\ UNCHANGED <<PLATES, OPT_CASCADING_PLAN, bot_orders_2d, optimization_result,
                   rendered>>
    /\ UNCHANGED <<optVars, ffdVars>>

\* a request is taken once the handler of the one before it has finished
SeqReceive(r) ==
    /\ \A q \in Requests : q < r => bot_pc[q] = "done"
    /\ Receive(r)

\* steps 1 and 2, up to the await of the optimizer thread (or, with no
\* orders, of the visualization thread)
ParseAndBuild(r) ==
    /\ bot_pc[r] = "answered"
    /\ PLATES' = set_plate_lists_from_text(text[r])
    /\ bot_orders_2d' = [bot_orders_2d EXCEPT ![r] = BuildOrders2D(PLATES')]
    /\ bot_pc' = [bot_pc EXCEPT ![r] =
                    IF BuildOrders2D(PLATES') = <<>> THEN "visualizing" ELSE "optimizing"]
    /\ UNCHANGED <<OPT_CASCADING_PLAN, text, optimization_result, rendered>>
    /\ UNCHANGED <<optVars, ffdVars>>

\* step 3: the optimizer returns, and a plan with plates is stored in the
\* global
OptimizeReturn(r) ==
    /\ bot_pc[r] = "optimizing"
    /\ \E plan \in optimize_with_cascading_longitudinal_cuts(
                        bot_orders_2d[r], DEFAULT_PLATE_WIDTH, DEFAULT_MIN_USEFUL_WIDTH,
                        price_db, pulp_installed) :
          /\ optimization_result' = [optimization_result EXCEPT ![r] = plan]
          /\ OPT_CASCADING_PLAN' = IF HasPlates(plan) THEN plan ELSE OPT_CASCADING_PLAN
    /\ bot_pc' = [bot_pc EXCEPT ![r] = "visualizing"]
    /\ UNCHANGED <<PLATES, text, bot_orders_2d, rendered>>
    /\ UNCHANGED <<optVars, ffdVars>>

\* step 5: visualize_plan reads the global
Visualize(r) ==
    /\ bot_pc[r] = "visualizing"
    /\ rendered' = [rendered EXCEPT ![r] = visualize_plan(PLATES, OPT_CASCADING_PLAN)]
    /\ bot_pc' = [bot_pc EXCEPT ![r] = "done"]
    /\ UNCHANGED <<PLATES, OPT_CASCADING_PLAN, text, bot_orders_2d, optimization_result>>
    /\ UNCHANGED <<optVars, ffdVars>>

BotNext ==
    \E r \in Requests :
        \/ SeqReceive(r)
        \/ ParseAndBuild(r)
        \/ OptimizeReturn(r)
        \/ Visualize(r)

(***************************************************************************)
(* Specifications                                                          *)
(***************************************************************************)
\* no call of _optimize_2d_with_lengths in progress
OptCallIdle ==
    /\ pc = "idle"
    /\ orders_2d = <<>>
    /\ plate_width = DEFAULT_PLATE_WIDTH
    /\ min_useful_width = DEFAULT_MIN_USEFUL_WIDTH
    /\ demand_2d = <<>>
    /\ primary_options = <<>>
    /\ possible_rests = <<>>
    /\ secondary_options = <<>>
    /\ prob = NoProblem
    /\ status = "Not Solved"
    /\ values = <<>>
    /\ result = NotReturned

\* no call of first_fit_decreasing in progress
FfdIdle ==
    /\ ffd_pc = "idle"
    /\ pieces = <<>>
    /\ stock_len_m = 988
    /\ expanded = <<>>
    /\ placed = 0
    /\ pool = <<>>

\* one call of _optimize_2d_with_lengths
Init == OptInit /\ FfdIdle /\ BotInit

Next == OptNext

Spec == Init /\ [][Next]_vars

\* one call of first_fit_decreasing
InitFFD == FfdInit /\ OptCallIdle /\ price_db = {} /\ pulp_installed = TRUE /\ BotInit

SpecFFD == InitFFD /\ [][FfdNext]_vars

\* order messages handled one after the other; the prices table and the
\* solver are those of the installation
InitBot ==
    /\ BotInit
    /\ OptCallIdle
    /\ price_db \in PriceTables
    /\ pulp_installed \in BOOLEAN
    /\ FfdIdle

SpecBot == InitBot /\ [][BotNext]_vars

\* order messages handled at the same time: a handler is suspended at its
\* awaits, where the handler of another message may run
BotNextConcurrent ==
    \E r \in Requests :
        \/ Receive(r)
        \/ ParseAndBuild(r)
        \/ OptimizeReturn(r)
        \/ Visualize(r)

SpecBotConcurrent == InitBot /\ [][BotNextConcurrent]_vars


(***************************************************************************)
(* Properties of _optimize_2d_with_lengths                                 *)
(***************************************************************************)
IsPlan(r) == r # NotReturned /\ r # EmptyDict

DefaultConfig ==
    plate_width = DEFAULT_PLATE_WIDTH /\ min_useful_width = DEFAULT_MIN_USEFUL_WIDTH

\* pieces of a plan that match a demand key, lengths and widths compared with
\* the tolerances of the demand constraints
Covered(plan, target) ==
    SumSeq([i \in 1..Len(plan.primary_cuts) |->
        LET cut == plan.primary_cuts[i]
        IN  IF LenClose(cut.lengths[1], target.length) /\ WidthClose(cut.width, target.width)
            THEN cut.qty ELSE 0])
    + SumSeq([i \in 1..Len(plan.secondary_cuts) |->
        LET cut == plan.secondary_cuts[i]
        IN  IF LenClose(cut.lengths[1], target.length) /\ WidthClose(cut.cuts[1], target.width)
            THEN cut.qty * cut.pieces ELSE 0])

\* C1  Coverage: a returned plan that holds at least one cut provides, for
\* every demand key of the input, at least the demanded number of pieces.
C1_Coverage ==
    (pc = "done" /\ IsPlan(result)
        /\ (result.primary_cuts # <<>> \/ result.secondary_cuts # <<>>))
    => \A i \in 1..Len(demand_2d) : Covered(result, demand_2d[i]) >= demand_2d[i].qty

\* remnants of a key produced by the non-Solid primary cuts of a plan
PlanProduced(plan, length, rest) ==
    SumSeq([i \in 1..Len(plan.primary_cuts) |->
        LET cut == plan.primary_cuts[i]
        IN  IF cut.lengths[1] = length /\ cut.rest = rest /\ cut.rest # 0
            THEN cut.qty ELSE 0])

\* remnants of a key consumed by the secondary cuts of a plan
PlanConsumed(plan, length, rest) ==
    SumSeq([i \in 1..Len(plan.secondary_cuts) |->
        LET cut == plan.secondary_cuts[i]
        IN  IF cut.source_lengths[1] = length /\ cut.source = rest
            THEN cut.qty ELSE 0])

PlanRemnantKeys(plan) ==
    {<<plan.primary_cuts[i].lengths[1], plan.primary_cuts[i].rest>> :
        i \in 1..Len(plan.primary_cuts)}
    \cup {<<plan.secondary_cuts[i].source_lengths[1], plan.secondary_cuts[i].source>> :
        i \in 1..Len(plan.secondary_cuts)}

\* C2  Balance: in every returned plan the secondary cuts consume, of every
\* remnant key, at most what the non-Solid primary cuts produce.
C2_Balance ==
    (pc = "done" /\ IsPlan(result))
    => \A k \in PlanRemnantKeys(result) :
          PlanConsumed(result, k[1], k[2]) <= PlanProduced(result, k[1], k[2])

\* a returned plan in which secondary cuts consume remnants
C2_Witness ==
    /\ pc = "done" /\ IsPlan(result)
    /\ \E i \in 1..Len(result.secondary_cuts) : result.secondary_cuts[i].qty >= 2

\* the penalty 0.5 x (produced - consumed) x remnant price of every remnant
\* key that a non-Solid primary option produces
FullUnusedPenalty(rests, primary, secondary, db) ==
    Flatten([i \in 1..Len(rests) |->
        LET produced == Produced(rests[i], primary)
        IN  IF rests[i].rest > 0 /\ produced # <<>>
            THEN Scale(HalfRestPrice(rests[i], db),
                       produced \o Scale(-1, Consumed(rests[i], secondary)))
            ELSE <<>>])

\* C3  Example D: the objective charges the unused-remnant penalty for every
\* remnant key a non-Solid primary option produces, consumed or not.
C3_UnusedRemnantCharged ==
    pc \in {"built", "solved", "done"}
    => CoefOf(prob.objective.unused_penalty, prob.vars)
        = CoefOf(FullUnusedPenalty(possible_rests, primary_options, secondary_options,
                                   price_db), prob.vars)

ExampleARun ==
    pc = "done" /\ orders_2d = ExampleA /\ pulp_installed /\ DefaultConfig

\* C4  Example A as stated: the plan holds a primary cut 320 + 880 with qty 11.
C4_ExampleA_Qty11 ==
    ExampleARun
    => /\ IsPlan(result)
       /\ \E i \in 1..Len(result.primary_cuts) :
            /\ result.primary_cuts[i].width = 320
            /\ result.primary_cuts[i].rest = 880
            /\ result.primary_cuts[i].qty = 11

\* C4  Example A as the program does it: 4 primary cuts 320 + 880, and the 4
\* remnants of 880 cut into 2 x 320 each (4 + 8 pieces for the 11 demanded).
C4_ExampleA_Qty4 ==
    ExampleARun
    => /\ IsPlan(result)
       /\ result.primary_cuts = << PrimaryCut(PrimaryOption(560, 320, 880, "direct", 0, 0), 4) >>
       /\ Len(result.secondary_cuts) = 1
       /\ result.secondary_cuts[1].type = "multiple"
       /\ result.secondary_cuts[1].source = 880
       /\ result.secondary_cuts[1].cuts = <<320>>
       /\ result.secondary_cuts[1].pieces = 2
       /\ result.secondary_cuts[1].qty = 4
       /\ result.total_plates = 4

C4_Witness == ExampleARun /\ IsPlan(result) /\ result.total_plates > 0

ExampleBRun ==
    pc = "done" /\ orders_2d = ExampleB /\ pulp_installed /\ DefaultConfig

\* C5  Example B: the plan needs at most 10 plates, total_plates being the
\* sum of the qty of the primary cuts.
C5_ExampleB_AtMost10 ==
    ExampleBRun
    => /\ IsPlan(result)
       /\ result.total_plates
            = SumSeq([i \in 1..Len(result.primary_cuts) |-> result.primary_cuts[i].qty])
       /\ result.total_plates <= 10

C5_Witness ==
    /\ ExampleBRun /\ IsPlan(result)
    /\ Covered(result, ExampleB[1]) >= 10 /\ Covered(result, ExampleB[2]) >= 3

NonPositive(order) == order.length <= 0 \/ order.width <= 0 \/ order.qty <= 0

\* C8  A demand list with a non-positive length, width or qty is rejected
\* before any option is generated, and no plan is returned for it.
C8_NonPositiveRejected ==
    (pulp_installed /\ \E i \in 1..Len(orders_2d) : NonPositive(orders_2d[i]))
    => /\ primary_options = <<>>
       /\ secondary_options = <<>>
       /\ prob = NoProblem
       /\ ~IsPlan(result)

PlatePriceMissing(opt) == get_price(opt.length, 8, price_db) = <<>>
BasePriceMissing(rest) == get_price(rest.length, 6, price_db) = <<>>

\* every price lookup of the run returns None
AllPricesMissing ==
    /\ \A i \in 1..Len(primary_options) : PlatePriceMissing(primary_options[i])
    /\ \A i \in 1..Len(possible_rests) : BasePriceMissing(possible_rests[i])

\* C9  A missing price is replaced by the default price in the objective,
\* and a run in which the prices are missing still returns a plan.
C9_MissingPriceDefault ==
    /\ pc \in {"built", "solved", "done"}
        => /\ \A i \in 1..Len(primary_options) :
                LET opt == primary_options[i]
                IN  PlatePriceMissing(opt)
                    => CoefOf(prob.objective.total_cost, prob.vars)[x_prim(opt)]
                        = DEFAULT_PLATE_PRICE * CostScale
                          + (IF opt.type = "solid" THEN 0 - SOLID_BONUS * CostScale
                             ELSE LongCutCost(opt.length))
           /\ \A i \in 1..Len(possible_rests) :
                LET rest == possible_rests[i]
                IN  (BasePriceMissing(rest) /\ rest.rest > 0
                        /\ Consumed(rest, secondary_options) # <<>>
                        /\ Len(rest.source_ids) = 1)
                    => CoefOf(prob.objective.unused_penalty, prob.vars)[<<"prim", rest.source_ids[1]>>]
                        = DEFAULT_BASE_PRICE * rest.rest * (CostScale \div 2400)
    /\ (pc = "done" /\ pulp_installed /\ orders_2d # <<>> /\ AllPricesMissing)
        => status = "Optimal" /\ IsPlan(result)

\* a run with a Solid, a cut and a charged remnant, all priced by default
C9_Witness ==
    /\ pc = "done" /\ pulp_installed /\ AllPricesMissing /\ IsPlan(result)
    /\ \E i \in 1..Len(primary_options) : primary_options[i].type = "solid"
    /\ \E i \in 1..Len(possible_rests) : Consumed(possible_rests[i], secondary_options) # <<>>
    /\ result.total_plates > 0

(***************************************************************************)
(* C6  Example C of the track packer                                       *)
(***************************************************************************)
ExampleCRun == ffd_pc = "done" /\ pieces = ExampleC /\ stock_len_m = 988

TrackLengths(track) == [i \in 1..Len(track.pieces) |-> track.pieces[i].length_m]

TracksHolding(lengths) == {i \in 1..Len(pool) : TrackLengths(pool[i]) = lengths}

\* C6 as stated: first_fit_decreasing given unit pieces of lengths 9.88,
\* 9.88, 5.0 and 5.0 with capacity 9.88 returns 3 tracks, two of them holding
\* a single 9.88 piece and one holding both 5.0 pieces.
C6_ExampleC_ThreeTracks ==
    ExampleCRun =>
        /\ Len(pool) = 3
        /\ Cardinality(TracksHolding(<<988>>)) = 2
        /\ Cardinality(TracksHolding(<<500, 500>>)) = 1

\* C6 as the program behaves: for the pieces 9.88, 9.88, 5.0 and 5.0 with
\* capacity 9.88 first_fit_decreasing returns 4 tracks, each holding one
\* piece, in the order 9.88, 9.88, 5.0, 5.0 (5.0 + 5.0 exceeds 9.88), with
\* the leftovers 0, 0, 4.88 and 4.88.
C6_ExampleC_FourTracks ==
    ExampleCRun =>
        /\ Len(pool) = 4
        /\ [i \in 1..4 |-> TrackLengths(pool[i])] = << <<988>>, <<988>>, <<500>>, <<500>> >>
        /\ [i \in 1..4 |-> pool[i].leftover_m] = <<0, 0, 488, 488>>

C6_Witness == ExampleCRun /\ Len(pool) = 4

(***************************************************************************)
(* C10  No plan persists across the requests                               *)
(***************************************************************************)
\* C10: after any sequence of order requests, a request that was rendered
\* from the cascading plan was rendered from the plan its own optimizer call
\* returned; a request whose optimizer call returned no plan is not rendered
\* from the plan an earlier request left.
C10_RenderedFromOwnPlan ==
    \A r \in Requests :
        (bot_pc[r] = "done" /\ rendered[r].used = "OPT_CASCADING_PLAN")
            => rendered[r].plan = optimization_result[r]

(***************************************************************************)
(* C11  Solid priority                                                     *)
(***************************************************************************)
\* Solid cuts of a plan for a demand key: the entries without a remnant
SolidCuts(plan, target) ==
    SumSeq([i \in 1..Len(plan.primary_cuts) |->
        LET cut == plan.primary_cuts[i]
        IN  IF LenClose(cut.lengths[1], target.length) /\ cut.width = target.width
               /\ cut.rest = 0
            THEN cut.qty ELSE 0])

\* the model holds a constraint "sum of the Solid variables of the key >= qty"
RequiresSolid(target) ==
    \E i \in 1..Len(prob.constraints) :
        /\ prob.constraints[i].terms # <<>>
        /\ prob.constraints[i].terms = SolidSources(target, primary_options)
        /\ prob.constraints[i].rhs >= target.qty

\* C11: for every demand key whose width equals plate_width, whatever the
\* configured plate_width, the model requires the sum of the Solid variables
\* of that length to be at least the demanded qty, and in every returned plan
\* the Solid cuts of the key alone cover the demand.
C11_SolidPriority ==
    \A i \in 1..Len(demand_2d) :
        demand_2d[i].width = plate_width =>
            /\ pc \in {"built", "solved", "done"} /\ prob # NoProblem
                    => RequiresSolid(demand_2d[i])
            /\ pc = "done" /\ IsPlan(result)
                    => SolidCuts(result, demand_2d[i]) >= demand_2d[i].qty

(***************************************************************************)
(* C12  Aggregation of near-duplicate order lines                          *)
(***************************************************************************)
NearKey(a, b) == LenClose(a.length, b.length) /\ WidthClose(a.width, b.width)

Aggregated == pc \notin {"start", "idle"} /\ pulp_installed /\ orders_2d # <<>>

\* qty of the order lines that are near a key
QtyNear(key) ==
    SumSeq([l \in 1..Len(orders_2d) |->
        IF NearKey(orders_2d[l], key) THEN orders_2d[l].qty ELSE 0])

\* C12: two order lines whose lengths differ by at most 10 mm and whose
\* widths differ by at most 20 mm (equal lines included) end up under one
\* demand key, whose qty is the sum of the qty of the lines merged into it.
C12_NearDuplicatesMerged ==
    Aggregated =>
        \A i, j \in 1..Len(orders_2d) :
            (i < j /\ NearKey(orders_2d[i], orders_2d[j])) =>
                \E k \in 1..Len(demand_2d) :
                    /\ NearKey(demand_2d[k], orders_2d[i])
                    /\ NearKey(demand_2d[k], orders_2d[j])
                    /\ demand_2d[k].qty = QtyNear(demand_2d[k])

(***************************************************************************)
(* C13  Primary option generation                                          *)
(***************************************************************************)
\* the generated options of a type whose length and main width are a key's
GeneratedFor(key, type) ==
    {i \in 1..Len(primary_options) :
        /\ primary_options[i].type = type
        /\ primary_options[i].length = key.length
        /\ primary_options[i].main = key.width}

\* C13: straight after the generation, a demand key (L, w) has exactly one
\* Solid option (main S, rest 0) and no Direct one if w = S; exactly one
\* Direct option (main w, rest S - w) and no Solid one if w < S and
\* S - w >= U; neither if w < S and S - w < U, or if w > S.  Every Solid
\* option has rest 0.
C13_PrimaryGeneration ==
    pc = "primary" =>
        /\ \A k \in 1..Len(demand_2d) :
            LET key == demand_2d[k]
                solid == GeneratedFor(key, "solid")
                direct == GeneratedFor(key, "direct")
            IN  /\ key.width = plate_width =>
                    /\ Cardinality(solid) = 1 /\ direct = {}
                    /\ \A i \in solid : primary_options[i].rest = 0
                /\ (key.width < plate_width /\ plate_width - key.width >= min_useful_width) =>
                    /\ Cardinality(direct) = 1 /\ solid = {}
                    /\ \A i \in direct : primary_options[i].rest = plate_width - key.width
                /\ (key.width > plate_width
                    \/ (key.width < plate_width
                        /\ plate_width - key.width < min_useful_width)) =>
                    solid = {} /\ direct = {}
        /\ \A i \in 1..Len(primary_options) :
            primary_options[i].type = "solid" => primary_options[i].rest = 0

\* a key with a Direct option beside a key that is too wide for one
C13_Witness ==
    /\ pc = "primary"
    /\ \E k \in 1..Len(demand_2d) : GeneratedFor(demand_2d[k], "direct") # {}
    /\ \E k \in 1..Len(demand_2d) :
        /\ demand_2d[k].width < plate_width
        /\ plate_width - demand_2d[k].width < min_useful_width
        /\ GeneratedFor(demand_2d[k], "direct") = {}

(***************************************************************************)
(* C14  Primary filter                                                     *)
(***************************************************************************)
\* the list the filter was given
Unfiltered == GeneratePrimary(demand_2d, plate_width, min_useful_width)

\* a Direct option of the generated list with the target width and the
\* length (within 0.01 m) of an Indirect option
DirectGeneratedFor(opt) ==
    \E j \in 1..Len(Unfiltered) :
        /\ Unfiltered[j].type = "direct"
        /\ Unfiltered[j].main = opt.target_width
        /\ LenClose(Unfiltered[j].length, opt.length)

\* C14: after the primary filter every remaining option has rest = 0 or
\* rest >= U; no Indirect option remains for which a Direct option with its
\* target width and its length was generated; every Solid or Direct option
\* and every Indirect option without such a Direct option is kept.
C14_PrimaryFilter ==
    pc = "primary_filtered" =>
        /\ \A i \in 1..Len(primary_options) :
            /\ primary_options[i].rest = 0 \/ primary_options[i].rest >= min_useful_width
            /\ primary_options[i].type = "indirect" => ~DirectGeneratedFor(primary_options[i])
            /\ primary_options[i] \in Range(Unfiltered)
        /\ \A j \in 1..Len(Unfiltered) :
            (Unfiltered[j].type \in {"solid", "direct"}
             \/ (Unfiltered[j].type = "indirect" /\ ~DirectGeneratedFor(Unfiltered[j])))
                => Unfiltered[j] \in Range(primary_options)

\* the filter has dropped an Indirect option
C14_Witness ==
    /\ pc = "primary_filtered"
    /\ \E j \in 1..Len(Unfiltered) :
        Unfiltered[j].type = "indirect" /\ Unfiltered[j] \notin Range(primary_options)

(***************************************************************************)
(* C15  Multiple rule                                                      *)
(***************************************************************************)
\* the generated secondary options of a type from a remnant key to a demand key
GeneratedFrom(rest, key, type) ==
    {i \in 1..Len(secondary_options) :
        /\ secondary_options[i].type = type
        /\ secondary_options[i].source_length = rest.length
        /\ secondary_options[i].source_rest = rest.rest
        /\ secondary_options[i].output_length = key.length
        /\ secondary_options[i].output_width = key.width}

C16_TransverseRule ==
    pc = "secondary" =>
        \A n \in 1..Len(possible_rests), k \in 1..Len(demand_2d) :
            LET rest == possible_rests[n]
                key == demand_2d[k]
            IN  (/\ rest.rest >= min_useful_width
                 /\ Abs(key.width - rest.rest) <= tolerance_width
                 /\ key.length < rest.length) =>
                    \E i \in GeneratedFrom(rest, key, "transverse") :
                        /\ secondary_options[i].pieces = 1
                        /\ secondary_options[i].waste = 0
                        /\ secondary_options[i].length_waste
                                = (rest.length - key.length) * 10

(***************************************************************************)
(* C17  Secondary filter                                                   *)
(***************************************************************************)
\* areas in mm x mm: widths and length waste are in mm, lengths in cm
WasteArea(opt) ==
    opt.waste * (10 * opt.source_length) + opt.length_waste * opt.source_rest

SourceArea(opt) == (10 * opt.source_length) * opt.source_rest

\* C17: every secondary option that survives the filter wastes at most 30%
\* of the area of its source remnant (width waste x source length plus length
\* waste x source width); no two surviving options share (source length,
\* source width, output length, output width, kind); no surviving Transverse
\* option wastes more than 50% of the source length.
C17_SecondaryFilter ==
    pc = "secondary_filtered" =>
        /\ \A i \in 1..Len(secondary_options) :
            LET opt == secondary_options[i]
            IN  /\ 10 * WasteArea(opt) <= 3 * SourceArea(opt)
                /\ opt.type = "transverse" => 2 * opt.length_waste <= 10 * opt.source_length
        /\ \A i, j \in 1..Len(secondary_options) :
            i # j =>
                <<secondary_options[i].source_length, secondary_options[i].source_rest,
                  secondary_options[i].output_length, secondary_options[i].output_width,
                  secondary_options[i].type>>
                # <<secondary_options[j].source_length, secondary_options[j].source_rest,
                    secondary_options[j].output_length, secondary_options[j].output_width,
                    secondary_options[j].type>>

\* the filter has dropped one option and kept another
C17_Witness ==
    /\ pc = "secondary_filtered"
    /\ secondary_options # <<>>
    /\ Len(secondary_options)
        < Len(GenerateSecondary(possible_rests, demand_2d, min_useful_width))

(***************************************************************************)
(* C18  Result extraction                                                  *)
(***************************************************************************)
PrimaryQty(plan) ==
    SumSeq([i \in 1..Len(plan.primary_cuts) |-> plan.primary_cuts[i].qty])

SecondaryPieces(plan) ==
    SumSeq([i \in 1..Len(plan.secondary_cuts) |->
        plan.secondary_cuts[i].qty * plan.secondary_cuts[i].pieces])

\* the assignments of a plan that name a secondary cut entry as their origin
AssignmentsOf(plan, cut) ==
    {a \in 1..Len(plan.plate_assignments) :
        /\ plan.plate_assignments[a].source = "secondary"
        /\ plan.plate_assignments[a].source_rest = cut.source
        /\ plan.plate_assignments[a].width = cut.cuts[1]
        /\ plan.plate_assignments[a].length = cut.lengths[1]}

\* C18: in every returned plan total_plates is the sum of the qty of the
\* primary cut entries; there are (sum of primary qty) + (sum of qty x pieces
\* of the secondary entries) plate assignments; no entry has qty 0; every
\* assignment with source 'secondary' carries the width of the remnant of a
\* secondary entry that yields its piece, qty x pieces of them per entry.
C18_ResultExtraction ==
    (pc = "done" /\ IsPlan(result)) =>
        /\ result.total_plates = PrimaryQty(result)
        /\ Len(result.plate_assignments) = PrimaryQty(result) + SecondaryPieces(result)
        /\ \A i \in 1..Len(result.primary_cuts) : result.primary_cuts[i].qty > 0
        /\ \A i \in 1..Len(result.secondary_cuts) :
            /\ result.secondary_cuts[i].qty > 0
            /\ Cardinality(AssignmentsOf(result, result.secondary_cuts[i]))
                = result.secondary_cuts[i].qty * result.secondary_cuts[i].pieces
        /\ \A a \in 1..Len(result.plate_assignments) :
            result.plate_assignments[a].source = "secondary" =>
                \E i \in 1..Len(result.secondary_cuts) :
                    a \in AssignmentsOf(result, result.secondary_cuts[i])

\* a returned plan with a secondary cut of several pieces
C18_Witness ==
    /\ pc = "done" /\ IsPlan(result)
    /\ result.total_plates >= 2
    /\ \E i \in 1..Len(result.secondary_cuts) : result.secondary_cuts[i].pieces >= 2

(***************************************************************************)
(* C19  Remnant credit                                                     *)
(***************************************************************************)
\* two demand keys of one length whose widths fill a plate
Complementary(a, b) ==
    /\ a.length = b.length
    /\ a.width + b.width = plate_width
    /\ a.width >= min_useful_width /\ b.width >= min_useful_width
    /\ a.qty > 0 /\ b.qty > 0

DemandConstraintOf(key) ==
    SelectSeq(prob.constraints,
              LAMBDA c : c.name = "demand" /\ c.key = <<key.length, key.width>>)

\* a source of the demand for b that is fed by the remnant of a cut for a:
\* the cut itself (direct use of its remnant) or a secondary cut of that remnant
CreditsRemnant(var, a, b) ==
    \/ \E i \in 1..Len(primary_options) :
        /\ var = x_prim(primary_options[i])
        /\ primary_options[i].length = a.length
        /\ primary_options[i].main = a.width
        /\ primary_options[i].rest = b.width
    \/ \E i \in 1..Len(secondary_options) :
        /\ var = x_sec(secondary_options[i])
        /\ secondary_options[i].source_length = a.length
        /\ secondary_options[i].source_rest = b.width

\* C19: for demands (L, w) and (L, S - w) with both widths >= U the model
\* holds a source of the demand for S - w at length L that is fed by the
\* remnant of width S - w left by a cut for w.
C19_RemnantCredit ==
    (pc \in {"built", "solved", "done"} /\ prob # NoProblem) =>
        \A i, j \in 1..Len(demand_2d) :
            (i # j /\ Complementary(demand_2d[i], demand_2d[j])) =>
                \E c \in Range(DemandConstraintOf(demand_2d[j])) :
                    \E t \in 1..Len(c.terms) :
                        /\ c.terms[t].coef > 0
                        /\ CreditsRemnant(c.terms[t].var, demand_2d[i], demand_2d[j])

(***************************************************************************)
(* C20  first_fit_decreasing: order of the pieces and choice of the track  *)
(***************************************************************************)
\* the tracks with room for a piece of the given length
TracksWithRoom(length_m) ==
    {i \in 1..Len(pool) : pool[i].total_m + length_m <= stock_len_m}

\* the track of the next pool that received the piece of this step
Receiver ==
    {j \in 1..Len(pool') : j > Len(pool) \/ pool'[j].pieces # pool[j].pieces}

\* one step of the placement loop, told by the piece counter
PlacementStep == ffd_pc = "placing" /\ placed' = placed + 1

\* C20: the unit pieces are placed in non-increasing order of length; each
\* goes to the lowest-index existing track whose total_m + piece length is
\* <= stock_len_m at that moment, and a new track is appended last only when
\* no existing track has room; so for the receiving track j and every track
\* i < j, total_m of track i plus the length of the piece exceeded stock_len_m.
C20_FirstFitDecreasing ==
    [][PlacementStep =>
        LET piece == expanded[placed + 1]
            room == TracksWithRoom(piece.length_m)
        IN  /\ piece.qty = 1
            /\ placed >= 1 => expanded[placed].length_m >= piece.length_m
            /\ \E j \in 1..Len(pool') :
                /\ Receiver = {j}
                /\ \A i \in 1..(j - 1) : pool[i].total_m + piece.length_m > stock_len_m
                /\ IF room # {}
                   THEN /\ j \in room
                        /\ Len(pool') = Len(pool)
                        /\ pool'[j].pieces = Append(pool[j].pieces, piece)
                        /\ pool'[j].total_m = pool[j].total_m + piece.length_m
                   ELSE /\ j = Len(pool) + 1
                        /\ Len(pool') = Len(pool) + 1
                        /\ pool'[j].pieces = <<piece>>
                        /\ pool'[j].total_m = piece.length_m
                /\ \A i \in 1..Len(pool) : i # j => pool'[i] = pool[i]
    ]_vars

\* the pieces were all placed, and the last piece of a track is shorter than
\* every piece of a later track that still has room for it: it was placed
\* when both tracks were open
C20_Witness ==
    /\ ffd_pc = "done"
    /\ \E i, j \in 1..Len(pool) :
        /\ i < j
        /\ LET last == pool[i].pieces[Len(pool[i].pieces)]
           IN  /\ \A k \in 1..Len(pool[j].pieces) : pool[j].pieces[k].length_m > last.length_m
               /\ pool[j].total_m + last.length_m <= stock_len_m

(***************************************************************************)
(* C21  first_fit_decreasing keeps every piece once                        *)
(***************************************************************************)
\* the positions <<track, index>> of the returned tracks
Slots == {<<t, k>> : t \in 1..Len(pool), k \in 1..MaxPieces * (MaxPieceQty + 1) + 4}

UnitsPlaced(length_m, kind) ==
    Cardinality({s \in Slots :
        /\ s[2] <= Len(pool[s[1]].pieces)
        /\ pool[s[1]].pieces[s[2]].length_m = length_m
        /\ pool[s[1]].pieces[s[2]].kind = kind})

UnitsAsked(length_m, kind) ==
    SumSeq([i \in 1..Len(pieces) |->
        IF pieces[i].length_m = length_m /\ pieces[i].kind = kind /\ pieces[i].qty > 0
        THEN pieces[i].qty ELSE 0])

\* C21: a Piece with qty q > 0 appears as exactly q unit pieces over the
\* returned tracks and a Piece with qty <= 0 in none; total_m of a track is
\* the sum of the lengths of its pieces, leftover_m is stock_len_m - total_m,
\* and no returned track is empty.
C21_PiecesKept ==
    ffd_pc = "done" =>
        /\ \A i \in 1..Len(pieces) :
            UnitsPlaced(pieces[i].length_m, pieces[i].kind)
                = UnitsAsked(pieces[i].length_m, pieces[i].kind)
        /\ SumSeq([t \in 1..Len(pool) |-> Len(pool[t].pieces)])
            = SumSeq([i \in 1..Len(pieces) |-> IF pieces[i].qty > 0 THEN pieces[i].qty ELSE 0])
        /\ \A t \in 1..Len(pool) :
            /\ \A k \in 1..Len(pool[t].pieces) : pool[t].pieces[k].qty = 1
            /\ Len(pool[t].pieces) <= MaxPieces * (MaxPieceQty + 1) + 4
            /\ pool[t].total_m = SumSeq(TrackLengths(pool[t]))
            /\ pool[t].leftover_m = stock_len_m - pool[t].total_m
            /\ pool[t].pieces # <<>>

\* a finished run of a list with a piece of qty 2 and a piece of qty <= 0
C21_Witness ==
    /\ ffd_pc = "done"
    /\ \E i, j \in 1..Len(pieces) :
        /\ pieces[i].qty = 2 /\ pieces[j].qty <= 0
        /\ pieces[i].length_m # pieces[j].length_m
        /\ UnitsPlaced(pieces[i].length_m, pieces[i].kind) = 2
        /\ UnitsPlaced(pieces[j].length_m, pieces[j].kind) = 0

(***************************************************************************)
(* C22, C23  Cost coefficients of the objective                            *)
(***************************************************************************)
ModelBuilt == pc \in {"built", "solved", "done"} /\ prob # NoProblem

\* the stock unit price of a length, scaled: the price of the table, or the
\* default when the table has none
StockUnitPrice(length) ==
    LET found == get_price(length, 8, price_db)
    IN  (IF found = <<>> THEN DEFAULT_PLATE_PRICE ELSE found[1]) * CostScale

CostCoef(var) == CoefOf(prob.objective.total_cost, prob.vars)[var]

\* C22: in the cost of the model the coefficient of a primary option is the
\* stock unit price of its length plus, only when the option is not Solid,
\* price per metre x length; the coefficient of a Solid option is exactly
\* the stock unit price.
C22_PrimaryCost ==
    ModelBuilt =>
        \A i \in 1..Len(primary_options) :
            LET opt == primary_options[i]
            IN  CostCoef(x_prim(opt))
                    = StockUnitPrice(opt.length)
                      + (IF opt.type = "solid" THEN 0 ELSE LongCutCost(opt.length))

\* C23: in the cost of the model every secondary option is charged the
\* longitudinal cut cost of its source length, and a Transverse or
\* MultipleTransverse option the flat transverse fee in addition to it.
C23_SecondaryCost ==
    ModelBuilt =>
        \A i \in 1..Len(secondary_options) :
            LET opt == secondary_options[i]
            IN  CostCoef(x_sec(opt))
                    = LongCutCost(opt.source_length)
                      + (IF opt.type \in {"transverse", "multiple_transverse"}
                         THEN TRANSVERSE_CUT_PRICE * CostScale ELSE 0)

(***************************************************************************)
(* C24  One piece, one demand                                              *)
(***************************************************************************)
DemandConstraintsBuilt == SelectSeq(prob.constraints, LAMBDA c : c.name = "demand")

VarsOf(c) == {c.terms[t].var : t \in 1..Len(c.terms)}

TotalDemanded == SumSeq([i \in 1..Len(demand_2d) |-> demand_2d[i].qty])

\* C24: no primary or secondary option variable appears in the demand
\* constraints of two distinct demand keys, and a returned plan holds at
\* least as many pieces as the sum of the demanded quantities.
C24_NoDoubleCredit ==
    /\ ModelBuilt =>
        \A a, b \in 1..Len(DemandConstraintsBuilt) :
            a # b => VarsOf(DemandConstraintsBuilt[a]) \cap VarsOf(DemandConstraintsBuilt[b]) = {}
    /\ (pc = "done" /\ IsPlan(result) /\ Len(DemandConstraintsBuilt) = Len(demand_2d))
        => Len(result.plate_assignments) >= TotalDemanded

(***************************************************************************)
(* C25  A remnant is used at most once                                     *)
(***************************************************************************)
Solved == pc \in {"solved", "done"} /\ status = "Optimal"

\* number of remnants of a key that the solution produces
RemnantsProduced(rest) ==
    SumSeq([i \in 1..Len(primary_options) |->
        IF /\ primary_options[i].id \in Range(rest.source_ids)
           /\ primary_options[i].type # "solid"
        THEN values[x_prim(primary_options[i])] ELSE 0])

\* units of Indirect options of the key: their remnant is the narrowed
\* piece credited to the demand
IndirectCredited(rest) ==
    SumSeq([i \in 1..Len(primary_options) |->
        IF /\ primary_options[i].id \in Range(rest.source_ids)
           /\ primary_options[i].type = "indirect"
        THEN values[x_prim(primary_options[i])] ELSE 0])

\* secondary cuts of the solution on remnants of the key
SecondaryCutsOn(rest) ==
    SumSeq([i \in 1..Len(secondary_options) |->
        IF /\ LenClose(secondary_options[i].source_length, rest.length)
           /\ secondary_options[i].source_rest = rest.rest
        THEN values[x_sec(secondary_options[i])] ELSE 0])

\* C25: where an Indirect primary option survives, the Indirect units
\* credited to the demand plus the secondary cuts on their remnant key never
\* exceed the number of remnants produced.
C25_RemnantUsedOnce ==
    Solved =>
        \A r \in 1..Len(possible_rests) :
            possible_rests[r].rest > 0 =>
                IndirectCredited(possible_rests[r]) + SecondaryCutsOn(possible_rests[r])
                    <= RemnantsProduced(possible_rests[r])

(***************************************************************************)
(* C26  Material conservation of the secondary options                     *)
(***************************************************************************)
Filtered == pc \in {"secondary_filtered", "built", "solved", "done"}

\* C26: every secondary option that survives the filter has
\* pieces x output_width + waste = source_rest with waste >= 0, and
\* output_length <= source_length with length_waste = source_length -
\* output_length (in mm) where the option carries one.
C26_MaterialConservation ==
    Filtered =>
        \A i \in 1..Len(secondary_options) :
            LET opt == secondary_options[i]
            IN  /\ opt.pieces * opt.output_width + opt.waste = opt.source_rest
                /\ opt.waste >= 0
                /\ opt.output_length <= opt.source_length
                /\ opt.type \in {"transverse", "multiple_transverse"}
                    => opt.length_waste = 10 * (opt.source_length - opt.output_length)

(***************************************************************************)
(* C27  No Indirect option under the default configuration                 *)
(***************************************************************************)
PrimaryFiltered ==
    pc \in {"primary_filtered", "secondary", "secondary_filtered", "built", "solved", "done"}

\* C27: with plate width 1200, minimum remnant width 200 and the built-in
\* narrowing table no Indirect primary option survives the primary filter:
\* every primary option of the model is Solid or Direct.
C27_NoIndirectByDefault ==
    (PrimaryFiltered /\ DefaultConfig) =>
        \A i \in 1..Len(primary_options) : primary_options[i].type \in {"solid", "direct"}

\* under the default configuration an Indirect option was generated and the
\* filter has dropped it, keeping other options
C27_Witness ==
    /\ pc = "primary_filtered" /\ DefaultConfig
    /\ \E j \in 1..Len(Unfiltered) : Unfiltered[j].type = "indirect"
    /\ primary_options # <<>>
    /\ \A i \in 1..Len(primary_options) : primary_options[i].type # "indirect"

(***************************************************************************)
(* C28, C29  Fill of the returned tracks                                   *)
(***************************************************************************)
\* C28: every returned track has total_m <= stock_len_m and leftover_m >= 0.
C28_TracksWithinStock ==
    ffd_pc = "done" =>
        \A t \in 1..Len(pool) :
            pool[t].total_m <= stock_len_m /\ pool[t].leftover_m >= 0

\* the returned tracks filled to half of the stock length or less
HalfEmptyTracks == {t \in 1..Len(pool) : 2 * pool[t].total_m <= stock_len_m}

\* C29: for pieces of non-negative length at most one returned track has
\* total_m <= stock_len_m / 2.
C29_OneHalfEmptyTrack ==
    (ffd_pc = "done" /\ \A i \in 1..Len(pieces) : pieces[i].length_m >= 0)
        => Cardinality(HalfEmptyTracks) <= 1

\* several tracks returned, exactly one of them at most half full
C29_Witness ==
    /\ ffd_pc = "done"
    /\ \A i \in 1..Len(pieces) : pieces[i].length_m >= 0
    /\ Len(pool) >= 2
    /\ Cardinality(HalfEmptyTracks) = 1

(***************************************************************************)
(* C30  Requests handled at the same time                                  *)
(***************************************************************************)
\* C30: when order messages are handled at the same time, the plate lists
\* read by the visualization step of a request are those parsed from the
\* text of that request, and when its optimizer call returned a plan with
\* plates the plan read is that plan, never what another request wrote.
C30_NoInterference ==
    \A r \in Requests :
        bot_pc[r] = "done" =>
            /\ rendered[r].plates = set_plate_lists_from_text(text[r])
            /\ HasPlates(optimization_result[r]) => rendered[r].plan = optimization_result[r]

====
